---- MODULE Spec2Model ----
(***************************************************************************)
(* A model of CRDScraper (src/crd_scraper.py): the pagination walk over a  *)
(* dataset's listing pages, the parsing of raw reaction strings, the       *)
(* resolution of a dataset identifier, and the incremental store that      *)
(* merges reaction records into the DOI-keyed document and rewrites the    *)
(* backing file after every reaction.                                      *)
(*                                                                         *)
(* Python strings are TLA+ strings, handled character by character with    *)
(* Len, SubSeq and \o.  Python dicts are functions whose domain is the set *)
(* of keys.  A falsy "no result" (None or '') of a string-valued function  *)
(* is the empty string, the code testing these results for truth only.     *)
(***************************************************************************)
EXTENDS Integers, Sequences, FiniteSets, TLC

(***************************************************************************)
(* Strings                                                                 *)
(***************************************************************************)

\* str[i], 1-based
Ch(s, i) == SubSeq(s, i, i)

\* str.startswith
startswith(s, p) == Len(s) >= Len(p) /\ SubSeq(s, 1, Len(p)) = p

\* str.find from a position: the least i >= from where sub occurs, 0 if none
RECURSIVE find(_, _, _)
find(s, sub, from) ==
    IF from + Len(sub) - 1 > Len(s) THEN 0
    ELSE IF SubSeq(s, from, from + Len(sub) - 1) = sub THEN from
    ELSE find(s, sub, from + 1)

\* the characters \s of a regular expression, and those str.strip() removes
Whitespace == {" ", "\t", "\n", "\r", "\f"}

Digits == {"0", "1", "2", "3", "4", "5", "6", "7", "8", "9"}

\* the index after the longest run, starting at i, of characters outside stop:
\* where a greedy [^...]+ ends
RECURSIVE SpanEnd(_, _, _)
SpanEnd(s, i, stop) ==
    IF i > Len(s) \/ Ch(s, i) \in stop THEN i ELSE SpanEnd(s, i + 1, stop)

\* the index after the longest run, starting at i, of characters inside keep
RECURSIVE RunEnd(_, _, _)
RunEnd(s, i, keep) ==
    IF i > Len(s) \/ Ch(s, i) \notin keep THEN i ELSE RunEnd(s, i + 1, keep)

\* str.split(sep) for a one-character separator: '' gives ['']
RECURSIVE split(_, _)
split(s, sep) ==
    LET i == find(s, sep, 1) IN
    IF i = 0 THEN <<s>>
    ELSE <<SubSeq(s, 1, i - 1)>> \o split(SubSeq(s, i + 1, Len(s)), sep)

\* str.split(sep, 1): at most one split
split1(s, sep) ==
    LET i == find(s, sep, 1) IN
    IF i = 0 THEN <<s>>
    ELSE <<SubSeq(s, 1, i - 1), SubSeq(s, i + 1, Len(s))>>

\* str.strip()
RECURSIVE lstrip(_)
lstrip(s) ==
    IF Len(s) > 0 /\ Ch(s, 1) \in Whitespace THEN lstrip(SubSeq(s, 2, Len(s))) ELSE s

RECURSIVE rstrip(_)
rstrip(s) ==
    IF Len(s) > 0 /\ Ch(s, Len(s)) \in Whitespace
    THEN rstrip(SubSeq(s, 1, Len(s) - 1)) ELSE s

\* the whitespace taken off the left end only
StripLeftOnly(s) == lstrip(s)

strip(s) == rstrip(lstrip(s))

\* sep.join(list)
RECURSIVE join(_, _)
join(sep, list) ==
    IF Len(list) = 0 THEN ""
    ELSE IF Len(list) = 1 THEN list[1]
    ELSE list[1] \o sep \o join(sep, Tail(list))

(***************************************************************************)
(* Reaction Parser                                                         *)
(***************************************************************************)

\* the tokens kept, in the reverse of their order in the segment
RECURSIVE StripNonEmptyReversed(_)
StripNonEmptyReversed(tokens) ==
    IF Len(tokens) = 0 THEN <<>>
    ELSE IF strip(tokens[1]) = "" THEN StripNonEmptyReversed(Tail(tokens))
    ELSE StripNonEmptyReversed(Tail(tokens)) \o <<strip(tokens[1])>>

\* [p.strip() for p in part.split('.') if p.strip()]
RECURSIVE StripNonEmpty(_)
StripNonEmpty(tokens) ==
    IF Len(tokens) = 0 THEN <<>>
    ELSE IF strip(tokens[1]) = "" THEN StripNonEmpty(Tail(tokens))
    ELSE <<strip(tokens[1])>> \o StripNonEmpty(Tail(tokens))

\* while len(parts) < 3: parts.append('')
RECURSIVE PadParts(_)
PadParts(parts) == IF Len(parts) < 3 THEN PadParts(Append(parts, "")) ELSE parts

_parse_reaction_string(reaction_str) ==
    LET parts == PadParts(split(reaction_str, ">")) IN
    [reactant_smiles |-> StripNonEmpty(split(parts[1], ".")),
     solvents        |-> StripNonEmpty(split(parts[2], ".")),
     product_smiles  |-> StripNonEmpty(split(parts[3], "."))]

\* The record extract_reaction_details returns; name is what the details
\* page and the listing page gave ('' when neither gave a name).
extract_reaction_details(reaction_smiles, reaction_index, name) ==
    LET parsed == _parse_reaction_string(reaction_smiles) IN
    [reaction_id     |-> "reaction_" \o ToString(reaction_index + 1),
     name            |-> name,
     reactant_smiles |-> join(".", parsed.reactant_smiles),
     solvent_smiles  |-> join(".", parsed.solvents),
     product_smiles  |-> join(".", parsed.product_smiles)]

(***************************************************************************)
(* Identity Resolver                                                       *)
(***************************************************************************)

HashModulus == 1000000

\* hash(url) % 1000000: Python salts str hashes per process, so all that is
\* known of the value is that it is a number below the modulus
HashValue == CHOOSE n \in 0..(HashModulus - 1) : TRUE

PyHash(url) == HashValue

\* the first pattern never matching
SearchDoiFullNever(url, from) == ""

\* re.search(r'/doi/([^/]+/[^/]+)', url).group(1), '' when there is no match
RECURSIVE SearchDoiFull(_, _)
SearchDoiFull(url, from) ==
    LET i == find(url, "/doi/", from) IN
    IF i = 0 THEN ""
    ELSE LET a == i + 5
             b == SpanEnd(url, a, {"/"})
             c == SpanEnd(url, b + 1, {"/"})
         IN  IF b > a /\ b <= Len(url) /\ c > b + 1
             THEN SubSeq(url, a, c - 1)
             ELSE SearchDoiFull(url, i + 1)

\* re.search(r'/doi/([^/]+)', url).group(1), '' when there is no match
RECURSIVE SearchDoiPrefix(_, _)
SearchDoiPrefix(url, from) ==
    LET i == find(url, "/doi/", from) IN
    IF i = 0 THEN ""
    ELSE LET a == i + 5
             b == SpanEnd(url, a, {"/"})
         IN  IF b > a THEN SubSeq(url, a, b - 1) ELSE SearchDoiPrefix(url, i + 1)

\* re.search(r'doi[=/]([0-9]+\.[^/\s&]+)', url).group(1), '' when no match
RECURSIVE SearchDoiQuery(_, _)
SearchDoiQuery(url, from) ==
    LET i == find(url, "doi", from) IN
    IF i = 0 THEN ""
    ELSE LET a == i + 4
             b == RunEnd(url, a, Digits)
             c == SpanEnd(url, b + 1, {"/", "&"} \cup Whitespace)
         IN  IF /\ i + 3 <= Len(url)
                /\ Ch(url, i + 3) \in {"=", "/"}
                /\ b > a
                /\ b <= Len(url)
                /\ Ch(url, b) = "."
                /\ c > b + 1
             THEN SubSeq(url, a, c - 1)
             ELSE SearchDoiQuery(url, i + 1)

_extract_dataset_id_from_url(url) ==
    LET full   == SearchDoiFull(url, 1)
        prefix == SearchDoiPrefix(url, 1)
        query  == SearchDoiQuery(url, 1)
    IN  IF full # "" THEN full
        ELSE IF prefix # "" THEN prefix
        ELSE IF query # "" THEN query
        ELSE "dataset_" \o ToString(PyHash(url))

\* the keys of entry_info holding 'url' (key.lower() contains 'url')
UrlKeys(entry_info) == DOMAIN entry_info \cap {"reaction_data_url"}

\* An entry is a dict: a function on the keys it has.  '' stands for None.
_extract_doi_from_entry(entry_info) ==
    LET hint == IF "doi" \in DOMAIN entry_info THEN entry_info["doi"] ELSE ""
        url  == IF "reaction_data_url" \in DOMAIN entry_info
                THEN entry_info["reaction_data_url"] ELSE ""
        fromUrl == IF url # "" THEN _extract_dataset_id_from_url(url) ELSE ""
        others == {_extract_dataset_id_from_url(entry_info[k]) : k \in UrlKeys(entry_info)}
        usable == {d \in others : d # "" /\ ~startswith(d, "dataset_")}
    IN  IF hint # "" /\ ~startswith(hint, "http") THEN hint
        ELSE IF fromUrl # "" /\ ~startswith(fromUrl, "dataset_") THEN fromUrl
        ELSE IF usable # {} THEN CHOOSE d \in usable : TRUE
        ELSE ""

(***************************************************************************)
(* Listing pages                                                           *)
(*                                                                         *)
(* A page is what the parsers see of its markup:                           *)
(*   panes    the <div id="reaction-pane-n"> elements in document order,   *)
(*            each [index, smiles, details]: n, the data-reaction-smiles   *)
(*            value of the first such button inside ('' if none), and the  *)
(*            href of its Details link ('' if none);                       *)
(*   pushes   the string literals of the reactions.push('...') calls;      *)
(*   attrs    the data-reaction-smiles values of elements outside panes;   *)
(*   literals the reaction-shaped quoted strings of the inline scripts;    *)
(*   links    the <a> and <button> elements in document order, each        *)
(*            [tag, text, href, onclick] ('' for a missing attribute).     *)
(***************************************************************************)

\* str.replace(old, new)
RECURSIVE replace(_, _, _)
replace(s, old, new) ==
    LET i == find(s, old, 1) IN
    IF i = 0 THEN s
    ELSE SubSeq(s, 1, i - 1) \o new
         \o replace(SubSeq(s, i + Len(old), Len(s)), old, new)

UpperCase == "ABCDEFGHIJKLMNOPQRSTUVWXYZ"
LowerCase == "abcdefghijklmnopqrstuvwxyz"

\* str.lower()
RECURSIVE lower(_)
lower(s) ==
    IF Len(s) = 0 THEN ""
    ELSE LET i == find(UpperCase, Ch(s, 1), 1) IN
         (IF i = 0 THEN Ch(s, 1) ELSE Ch(LowerCase, i)) \o lower(SubSeq(s, 2, Len(s)))

\* x in list
InList(x, list) == \E i \in 1..Len(list) : list[i] = x

\* .replace('&gt;', '>').replace('&lt;', '<').replace('&amp;', '&')
DecodeEntities(s) == replace(replace(replace(s, "&gt;", ">"), "&lt;", "<"), "&amp;", "&")

\* the loops that append a decoded value unless it is empty or already there
RECURSIVE AppendDecodedNew(_, _)
AppendDecodedNew(reactions, values) ==
    IF Len(values) = 0 THEN reactions
    ELSE LET r == DecodeEntities(values[1]) IN
         AppendDecodedNew(
             IF values[1] # "" /\ ~InList(r, reactions) THEN Append(reactions, r)
             ELSE reactions,
             Tail(values))

\* the push-call loop: every non-empty literal, as it is
RECURSIVE AppendNonEmpty(_, _)
AppendNonEmpty(reactions, values) ==
    IF Len(values) = 0 THEN reactions
    ELSE AppendNonEmpty(
             IF values[1] # "" THEN Append(reactions, values[1]) ELSE reactions,
             Tail(values))

\* the script-literal loop: every literal holding '>' that is not there yet
RECURSIVE AppendLiteralNew(_, _)
AppendLiteralNew(reactions, values) ==
    IF Len(values) = 0 THEN reactions
    ELSE AppendLiteralNew(
             IF find(values[1], ">", 1) # 0 /\ ~InList(values[1], reactions)
             THEN Append(reactions, values[1]) ELSE reactions,
             Tail(values))

PaneSmiles(panes) == [i \in 1..Len(panes) |-> panes[i].smiles]

_extract_reactions_from_page(page) ==
    LET structural == AppendDecodedNew(<<>>, PaneSmiles(page.panes)) IN
    IF Len(structural) > 0 THEN structural
    ELSE LET pushed  == AppendNonEmpty(<<>>, page.pushes)
             byRegex == AppendDecodedNew(pushed, page.attrs)
             bySoup  == AppendDecodedNew(byRegex, page.attrs)
         IN  AppendLiteralNew(bySoup, page.literals)

\* urljoin(base, href) for an absolute href, a href with an absolute path
\* and a relative path without dot segments
SchemeHostEnd(url) ==
    LET i == find(url, "://", 1) IN
    IF i = 0 THEN 0 ELSE SpanEnd(url, i + 3, {"/"}) - 1

RECURSIVE LastSlash(_, _)
LastSlash(url, i) ==
    IF i = 0 THEN 0 ELSE IF Ch(url, i) = "/" THEN i ELSE LastSlash(url, i - 1)

urljoin(base, href) ==
    IF href = "" THEN base
    ELSE IF find(href, "://", 1) # 0 THEN href
    ELSE IF startswith(href, "/") THEN SubSeq(base, 1, SchemeHostEnd(base)) \o href
    ELSE IF LastSlash(base, Len(base)) > SchemeHostEnd(base)
         THEN SubSeq(base, 1, LastSlash(base, Len(base))) \o href
    ELSE SubSeq(base, 1, SchemeHostEnd(base)) \o "/" \o href

\* re.search(r"['\"]([^'\"]+)['\"]", onclick).group(1), '' when no match
RECURSIVE SearchQuoted(_, _)
SearchQuoted(s, from) ==
    LET q == SpanEnd(s, from, {"'", "\""}) IN
    IF q > Len(s) THEN ""
    ELSE LET e == SpanEnd(s, q + 1, {"'", "\""}) IN
         IF e > q + 1 /\ e <= Len(s) THEN SubSeq(s, q + 1, e - 1)
         ELSE SearchQuoted(s, q + 1)

\* first loop: an <a href> whose text is next, > or »
RECURSIVE NextByAnchor(_, _)
NextByAnchor(links, current_url) ==
    IF Len(links) = 0 THEN ""
    ELSE LET l == links[1] IN
         IF /\ l.tag = "a"
            /\ l.href # ""
            /\ lower(strip(l.text)) \in {"next", ">", "»"}
         THEN urljoin(current_url, l.href)
         ELSE NextByAnchor(Tail(links), current_url)

\* second loop: a button or anchor whose text is next, by href or onclick
RECURSIVE NextByButton(_, _)
NextByButton(links, current_url) ==
    IF Len(links) = 0 THEN ""
    ELSE LET l == links[1] IN
         IF lower(strip(l.text)) = "next" /\ l.href # ""
         THEN urljoin(current_url, l.href)
         ELSE IF /\ lower(strip(l.text)) = "next"
                 /\ l.onclick # ""
                 /\ SearchQuoted(l.onclick, 1) # ""
         THEN urljoin(current_url, SearchQuoted(l.onclick, 1))
         ELSE NextByButton(Tail(links), current_url)

\* '' stands for None
_find_next_page_link(page, current_url) ==
    LET byAnchor == NextByAnchor(page.links, current_url) IN
    IF byAnchor # "" THEN byAnchor ELSE NextByButton(page.links, current_url)

(***************************************************************************)
(* Incremental Store                                                       *)
(***************************************************************************)

EmptyDict == [k \in {} |-> {}]

\* d[k] = v
DictSet(d, k, v) == [x \in DOMAIN d \cup {k} |-> IF x = k THEN v ELSE d[x]]

\* d[k] = {} whether or not k is in d
EnsureKeyReset(d, k) == DictSet(d, k, EmptyDict)

\* if k not in d: d[k] = {}
EnsureKey(d, k) == IF k \in DOMAIN d THEN d ELSE DictSet(d, k, EmptyDict)

\* the identifier save_current_data files a dataset under
DatasetDoi(dataset) ==
    IF dataset.dataset_id = "" \/ startswith(dataset.dataset_id, "dataset_")
    THEN _extract_dataset_id_from_url(dataset.url)
    ELSE dataset.dataset_id

\* no dataset is skipped
UnresolvedNever(dataset) == FALSE

\* a dataset save_current_data skips
Unresolved(dataset) ==
    DatasetDoi(dataset) = "" \/ startswith(DatasetDoi(dataset), "dataset_")

DoiKey(doi) == "DOI " \o split1(doi, "/")[1]

\* the suffix level left out
DoiSuffixNone(doi) == ""

DoiSuffix(doi) ==
    IF Len(split1(doi, "/")) = 2 THEN "/" \o split1(doi, "/")[2] ELSE ""

\* the payload stored for one reaction record
ReactionData(reaction) ==
    LET reaction_data == [reactant_smiles |-> reaction.reactant_smiles,
                          solvent_smiles  |-> reaction.solvent_smiles,
                          product_smiles  |-> reaction.product_smiles]
    IN  IF strip(reaction.name) # ""
        THEN DictSet(reaction_data, "name", strip(reaction.name))
        ELSE reaction_data

\* the loop keeping the entry a reaction_id already has
RECURSIVE MergeReactionsKeepFirst(_, _)
MergeReactionsKeepFirst(slot, reaction_details) ==
    IF Len(reaction_details) = 0 THEN slot
    ELSE MergeReactionsKeepFirst(
             IF reaction_details[1].reaction_id = ""
                \/ reaction_details[1].reaction_id \in DOMAIN slot
             THEN slot
             ELSE DictSet(slot, reaction_details[1].reaction_id,
                          ReactionData(reaction_details[1])),
             Tail(reaction_details))

\* for reaction in dataset['reaction_details']: slot[reaction_id] = reaction_data
RECURSIVE MergeReactions(_, _)
MergeReactions(slot, reaction_details) ==
    IF Len(reaction_details) = 0 THEN slot
    ELSE MergeReactions(
             IF reaction_details[1].reaction_id = "" THEN slot
             ELSE DictSet(slot, reaction_details[1].reaction_id,
                          ReactionData(reaction_details[1])),
             Tail(reaction_details))

\* one round of the loop over scraped_data['datasets']
MergeDataset(final_output, dataset) ==
    IF Unresolved(dataset) THEN final_output
    ELSE LET doi_key    == DoiKey(DatasetDoi(dataset))
             doi_suffix == DoiSuffix(DatasetDoi(dataset))
             withKey    == EnsureKey(final_output, doi_key)
             withSuffix == EnsureKey(withKey[doi_key], doi_suffix)
         IN  DictSet(withKey, doi_key,
                 DictSet(withSuffix, doi_suffix,
                     MergeReactions(withSuffix[doi_suffix], dataset.reaction_details)))

RECURSIVE MergeAll(_, _)
MergeAll(final_output, datasets) ==
    IF Len(datasets) = 0 THEN final_output
    ELSE MergeAll(MergeDataset(final_output, datasets[1]), Tail(datasets))

(***************************************************************************)
(* The environment: what the archive and the listing pages may hold, and   *)
(* how a write to the backing file may end.                                *)
(***************************************************************************)

MaxEntries == 2       \* entries the archive page yields, at most
MaxCap == 2           \* the largest max_reactions_per_dataset of a run
MaxWalkFetches == 3   \* listing pages a site serves for one dataset, at most

ListingA == "http://h/doi/10.1/a"
ListingB == "http://h/doi/10.1/b/start/0"
ListingU == "http://h/data/u"

base_url == "http://h"

\* 'sub' in s
contains(s, sub) == find(s, sub, 1) # 0

\* the loop over the links of one archive element: found is
\* [reaction_data_url, doi_url] so far, '' standing for None
RECURSIVE ScanLinks(_, _)
ScanLinks(links, found) ==
    IF Len(links) = 0 THEN found
    ELSE LET href == links[1].href
             link_text == lower(strip(links[1].text))
             isData == \/ contains(link_text, "reaction data")
                       \/ contains(lower(href), "reaction") /\ contains(lower(href), "data")
             isDoi == link_text = "doi" \/ contains(lower(href), "doi")
             doi_match == SearchDoiQuery(href, 1)
         IN  ScanLinks(Tail(links),
                 [reaction_data_url |-> IF isData THEN urljoin(base_url, href)
                                        ELSE found.reaction_data_url,
                  doi_url |-> IF ~isDoi THEN found.doi_url
                              ELSE IF doi_match # "" THEN doi_match
                              ELSE href])

\* if not reaction_data_url: the first link whose href holds reaction or data
RECURSIVE AnyDataLink(_)
AnyDataLink(links) ==
    IF Len(links) = 0 THEN ""
    ELSE IF contains(lower(links[1].href), "reaction")
            \/ contains(lower(links[1].href), "data")
    THEN urljoin(base_url, links[1].href)
    ELSE AnyDataLink(Tail(links))

\* the entries _extract_entries_by_year appends for one archive element
\* that mentions reaction data: none without a reaction data link, else one
\* dict, with the key doi when a DOI hint that is not a URL was found
\* (compound_name, authors and year, which no identifier is read from, are
\* left out)
EntriesOf(links) ==
    LET found == ScanLinks(links, [reaction_data_url |-> "", doi_url |-> ""])
        reaction_data_url == IF found.reaction_data_url # ""
                             THEN found.reaction_data_url ELSE AnyDataLink(links)
        entry == [k \in {"reaction_data_url"} |-> reaction_data_url]
    IN  IF reaction_data_url = "" THEN {}
        ELSE IF found.doi_url # "" /\ ~startswith(found.doi_url, "http")
        THEN {DictSet(entry, "doi", found.doi_url)}
        ELSE {entry}

DataLink(href) == [text |-> "reaction data", href |-> href]

DoiLink(href) == [text |-> "DOI", href |-> href]

\* the links of the elements an archive page may hold: a reaction data link
\* alone, or followed by the link to the publication
ArchiveItems ==
    {<<DataLink(ListingA)>>,
     <<DataLink(ListingB)>>,
     <<DataLink(ListingB), DoiLink("https://doi.org/10.1/b")>>,
     <<DataLink(ListingU)>>}

\* the entries _extract_entries_by_year may produce (dicts)
EntryPool == UNION {EntriesOf(links) : links \in ArchiveItems}

\* UNION of the sequences of length 0..n over S
SeqsUpTo(S, n) == UNION {[1..k -> S] : k \in 0..n}

ArchiveResults == SeqsUpTo(EntryPool, MaxEntries)

RawReactions == <<"CC.O>O>CCO", "C&gt;&gt;CO">>

Names == {"", "Riley oxidation"}

Pane(i, smiles) == [index |-> i, smiles |-> smiles, details |-> ""]

NextLink(href) == [tag |-> "a", text |-> "Next", href |-> href, onclick |-> ""]

PageOf(n, href) ==
    [panes    |-> [i \in 1..n |-> Pane(i - 1, RawReactions[i])],
     pushes   |-> <<>>,
     attrs    |-> <<>>,
     literals |-> <<>>,
     links    |-> IF href = "" THEN <<>> ELSE <<NextLink(href)>>]

\* the pages a site may serve for the dataset listed at listing
PagePool(listing) ==
    {PageOf(n, href) : n \in 0..Len(RawReactions), href \in {"", "/p/1", listing}}

\* open(json_file, 'w') raises and the file is as it was; json.dump raises
\* after open truncated the file; or the document is written whole
WriteOutcomes == {"ok", "open_fails", "dump_fails"}

(***************************************************************************)
(* State                                                                   *)
(***************************************************************************)

VARIABLES
    pc,              \* where run_scrape stands
    file,            \* the backing file: [state, doc]
    existing_data,   \* self.existing_data
    scraped_data,    \* self.scraped_data['datasets']
    max_reactions,   \* run_scrape's max_reactions_per_dataset
    entries,         \* run_scrape's entries, after the max_datasets cut
    entry_idx,       \* the entry scrape_dataset is called for, 1-based
    current_url,     \* scrape_reaction_data_page's current_url
    all_reactions,   \* scrape_reaction_data_page's all_reactions
    dataset_info,    \* scrape_dataset's dataset_info: <<>> is None, <<d>> is d
    reactions,       \* scrape_dataset's reactions
    idx,             \* reactions of the dataset processed so far
    fetched,         \* history: the fetches of this walk, each [url, got,
                     \* count, links, searched]: what came back, the reactions
                     \* and links of the page, whether a next link was sought
    walk_end,        \* history: how the walk of this dataset ended
    last_write,      \* history: how the last write of the run ended
    last_good,       \* history: the document of the last whole write: <<>>
                     \* before the first one, <<doc>> after
    lost,            \* history: the key paths the failed writes of the run
                     \* were adding, since the whole write before the last
    pace,            \* history: [last, hasty]: the last of the fetch calls
                     \* and politeness delays of the run so far ("none"
                     \* before the first), and whether in the last step a
                     \* fetch call began with no delay since the fetch
                     \* call before it
    op,              \* the function called on its own, "" when none was
    args,            \* its arguments
    result           \* what it returned

vars == <<pc, file, existing_data, scraped_data, max_reactions, entries, entry_idx,
          current_url, all_reactions, dataset_info, reactions, idx,
          fetched, walk_end, last_write, last_good, lost, pace, op, args, result>>

walkVars == <<current_url, all_reactions, fetched, walk_end>>
storeVars == <<file, existing_data, last_write, last_good, lost>>
callVars == <<op, args, result>>

OldDoc == DictSet(EmptyDict, "DOI 10.9", DictSet(EmptyDict, "/old", EmptyDict))

Init ==
    /\ pc = "idle"
    /\ file \in {[state |-> "absent", doc |-> EmptyDict],
                 [state |-> "complete", doc |-> OldDoc]}
    /\ existing_data = EmptyDict
    /\ scraped_data = <<>>
    /\ max_reactions = 0
    /\ entries = <<>>
    /\ entry_idx = 0
    /\ current_url = ""
    /\ all_reactions = <<>>
    /\ dataset_info = <<>>
    /\ reactions = <<>>
    /\ idx = 0
    /\ fetched = <<>>
    /\ walk_end = ""
    /\ last_write = "none"
    /\ last_good = <<>>
    /\ lost = {}
    /\ pace = [last |-> "none", hasty |-> FALSE]
    /\ op = ""
    /\ args = <<>>
    /\ result = <<>>

(***************************************************************************)
(* save_current_data                                                       *)
(***************************************************************************)

Min(a, b) == IF a < b THEN a ELSE b

\* the (doi_key, doi_suffix, reaction_id) paths of a document
KeyPaths(doc) ==
    UNION {UNION {{<<k, s, r>> : r \in DOMAIN doc[k][s]} : s \in DOMAIN doc[k]}
           : k \in DOMAIN doc}

\* with open(json_file, 'w') as f: json.dump(document, f)
FileAfter(document, outcome) ==
    CASE outcome = "ok"         -> [state |-> "complete", doc |-> document]
      [] outcome = "open_fails" -> file
      [] outcome = "dump_fails" -> [state |-> "partial", doc |-> EmptyDict]

\* self.existing_data = final_output before the write is known to succeed
SnapshotBeforeWrite(final_output, outcome) == final_output

\* self.existing_data = final_output, inside the try, after the write
SnapshotAfter(final_output, outcome) ==
    IF outcome = "ok" THEN final_output ELSE existing_data

\* save_current_data with self.scraped_data['datasets'] = datasets (never
\* empty when scrape_dataset calls it) and the write ending as outcome
save_current_data(datasets, outcome) ==
    LET final_output == MergeAll(existing_data, datasets) IN
    /\ file' = FileAfter(final_output, outcome)
    /\ existing_data' = SnapshotAfter(final_output, outcome)
    /\ last_write' = IF outcome = "ok" THEN "ok" ELSE "failed"
    /\ last_good' = IF outcome = "ok" THEN <<file'.doc>> ELSE last_good
    /\ lost' = LET pending == IF last_write = "failed" THEN lost ELSE {} IN
               IF outcome = "ok" THEN pending
               ELSE pending \cup (KeyPaths(final_output) \ KeyPaths(existing_data))

(***************************************************************************)
(* run_scrape, scrape_dataset, scrape_reaction_data_page                   *)
(***************************************************************************)

\* events, the fetch calls and delays of one step in their order, follow
\* the event before them
RECURSIVE HasFetchPair(_)
HasFetchPair(events) ==
    IF Len(events) < 2 THEN FALSE
    ELSE (events[1] = "fetch" /\ events[2] = "fetch") \/ HasFetchPair(Tail(events))

Paced(events) ==
    pace' = [last  |-> (<<pace.last>> \o events)[Len(events) + 1],
             hasty |-> HasFetchPair(<<pace.last>> \o events)]

\* scrape_dataset has returned: its locals are gone
DropLocals ==
    /\ current_url' = ""
    /\ all_reactions' = <<>>
    /\ dataset_info' = <<>>
    /\ reactions' = <<>>
    /\ idx' = 0
    /\ fetched' = <<>>
    /\ walk_end' = ""

\* the for loop of run_scrape moves on (after the delay between datasets)
AfterDataset ==
    IF entry_idx < Len(entries)
    THEN pc' = "dataset" /\ entry_idx' = entry_idx + 1
    ELSE pc' = "done" /\ entry_idx' = 0

\* the file and the snapshot left holding an older document
StaleDocument == OldDoc

\* the document run_scrape clears the file and the snapshot to: {}
FreshDocument == EmptyDict

\* run_scrape, up to the archive fetch: clear the file, reset the snapshot
RunScrape ==
    /\ pc \in {"idle", "done"}
    /\ \E outcome \in WriteOutcomes, cap \in 0..MaxCap :
        /\ file' = FileAfter(FreshDocument, outcome)
        /\ IF outcome = "ok"
           THEN /\ existing_data' = FreshDocument
                /\ scraped_data' = <<>>
                /\ max_reactions' = cap
                /\ pc' = "archive"
                /\ last_write' = "ok"
                /\ last_good' = <<file'.doc>>
                /\ lost' = {}
           ELSE /\ pc' = "raised"
                /\ last_write' = "failed"
                /\ UNCHANGED <<existing_data, scraped_data, max_reactions,
                               last_good, lost>>
    /\ entries' = <<>>
    /\ entry_idx' = 0
    /\ DropLocals
    /\ pace' = [last |-> "none", hasty |-> FALSE]
    /\ UNCHANGED callVars

\* if max_datasets: entries = entries[:max_datasets]   (<<>> is None)
LimitEntries(found, max_datasets) ==
    IF max_datasets # <<>> /\ max_datasets[1] # 0
    THEN SubSeq(found, 1, Min(max_datasets[1], Len(found)))
    ELSE found

\* scrape_archive_page and the cut to max_datasets; a failed fetch and an
\* archive without entries both give no entries, and the run returns
ScrapeArchivePage ==
    /\ pc = "archive"
    /\ \E found \in ArchiveResults,
          max_datasets \in {<<>>} \cup {<<n>> : n \in 0..MaxEntries} :
        /\ entries' = IF found = <<>> THEN <<>> ELSE LimitEntries(found, max_datasets)
        /\ pc' = IF found = <<>> THEN "done" ELSE "dataset"
        /\ entry_idx' = IF found = <<>> THEN 0 ELSE 1
    /\ UNCHANGED <<scraped_data, max_reactions, dataset_info, reactions, idx>>
    /\ UNCHANGED walkVars
    /\ UNCHANGED storeVars
    /\ Paced(<<"fetch">>)
    /\ UNCHANGED callVars

\* scrape_dataset, up to the call of scrape_reaction_data_page
ScrapeDataset ==
    /\ pc = "dataset"
    /\ LET entry_info == entries[entry_idx] IN
       IF "reaction_data_url" \notin DOMAIN entry_info
          \/ entry_info["reaction_data_url"] = ""
       THEN AfterDataset /\ DropLocals
       ELSE /\ pc' = "walk"
            /\ current_url' = entry_info["reaction_data_url"]
            /\ all_reactions' = <<>>
            /\ fetched' = <<>>
            /\ walk_end' = ""
            /\ UNCHANGED <<entry_idx, dataset_info, reactions, idx>>
    /\ UNCHANGED <<scraped_data, max_reactions, entries>>
    /\ UNCHANGED storeVars
    /\ LET entry_info == entries[entry_idx] IN
       IF "reaction_data_url" \notin DOMAIN entry_info
          \/ entry_info["reaction_data_url"] = ""
       THEN Paced(<<"delay">>)   \* run_scrape: time.sleep(0.5)
       ELSE Paced(<<>>)
    /\ UNCHANGED callVars

\* the dataset identifier scrape_reaction_data_page stores
ResolveDatasetId(reaction_data_url, entry_info) ==
    LET entry_doi == _extract_doi_from_entry(entry_info) IN
    IF entry_doi # "" THEN entry_doi
    ELSE _extract_dataset_id_from_url(reaction_data_url)

\* the loop without its test for an empty page
PageDecisionNoEmptyTest(page_reactions, next_url, url) ==
    IF next_url # "" /\ next_url # url THEN "continue"
    ELSE IF Len(page_reactions) = 0 THEN "empty"
    ELSE "no_next"

\* what the loop does with a fetched page: "empty" and "no_next" break
PageDecision(page_reactions, next_url, url) ==
    IF Len(page_reactions) = 0 THEN "empty"
    ELSE IF next_url # "" /\ next_url # url THEN "continue"
    ELSE "no_next"

\* the walk is over and scrape_reaction_data_page returns its pair
WalkReturns(list, how) ==
    LET entry_info == entries[entry_idx]
        reaction_data_url == entry_info["reaction_data_url"]
    IN  /\ pc' = "walked"
        /\ walk_end' = how
        /\ all_reactions' = list
        /\ reactions' = list
        /\ dataset_info' =
               <<[dataset_id       |-> ResolveDatasetId(reaction_data_url, entry_info),
                  url              |-> reaction_data_url,
                  reaction_samples |-> list,
                  reaction_details |-> <<>>]>>
        /\ UNCHANGED current_url

\* one round of the while loop of scrape_reaction_data_page: the fetch
\* raises (retries exhausted), returns None (not found), or returns a page
WalkFetch ==
    /\ pc = "walk"
    /\ \/ \* except Exception: return None, []
          /\ fetched' = Append(fetched, [url |-> current_url, count |-> 0, links |-> 0,
                                          searched |-> FALSE, got |-> "raise"])
          /\ pc' = "walked"
          /\ walk_end' = "transport"
          /\ dataset_info' = <<>>
          /\ reactions' = <<>>
          /\ UNCHANGED <<current_url, all_reactions>>
       \/ \* if not response: break
          /\ fetched' = Append(fetched, [url |-> current_url, count |-> 0, links |-> 0,
                                          searched |-> FALSE, got |-> "none"])
          /\ WalkReturns(all_reactions, "not_found")
       \/ \E page \in PagePool(entries[entry_idx]["reaction_data_url"]) :
            LET page_reactions == _extract_reactions_from_page(page)
                next_url == _find_next_page_link(page, current_url)
                decision == PageDecision(page_reactions, next_url, current_url)
            IN  /\ Len(fetched) + 1 = MaxWalkFetches => decision # "continue"
                /\ fetched' = Append(fetched,
                       [url |-> current_url, count |-> Len(page_reactions),
                        links |-> Len(page.links),
                        searched |-> decision # "empty", got |-> "page"])
                /\ CASE decision = "empty" ->
                            WalkReturns(all_reactions, "empty_page")
                     [] decision = "no_next" ->
                            WalkReturns(all_reactions \o page_reactions, "no_next")
                     [] decision = "continue" ->
                            /\ all_reactions' = all_reactions \o page_reactions
                            /\ current_url' = next_url
                            /\ UNCHANGED <<pc, walk_end, dataset_info, reactions>>
    /\ UNCHANGED <<scraped_data, max_reactions, entries, entry_idx, idx>>
    /\ UNCHANGED storeVars
    /\ Paced(IF current_url' # current_url
             THEN <<"fetch", "delay">>   \* time.sleep(0.5) between pages
             ELSE <<"fetch">>)
    /\ UNCHANGED callVars

\* the list left as it is
KeepAllReactions(list, cap) == list

\* reactions[:max_reactions_per_dataset]
LimitReactions(list, cap) == SubSeq(list, 1, Min(cap, Len(list)))

\* scrape_dataset from the return of the walk to the reaction loop
AfterWalk ==
    /\ pc = "walked"
    /\ IF dataset_info = <<>>
       THEN AfterDataset /\ DropLocals
       ELSE LET kept == LimitReactions(reactions, max_reactions) IN
            /\ reactions' = kept
            /\ dataset_info' = <<[dataset_info[1] EXCEPT !.reaction_samples = kept]>>
            /\ idx' = 0
            /\ pc' = IF Len(kept) > 0 THEN "reaction" ELSE "final"
            /\ current_url' = ""
            /\ all_reactions' = <<>>
            /\ fetched' = <<>>
            /\ walk_end' = ""
            /\ UNCHANGED entry_idx
    /\ UNCHANGED <<scraped_data, max_reactions, entries>>
    /\ UNCHANGED storeVars
    /\ \* the listing pages hold no Details links: details_links is empty
       \* and the page is fetched again when a reaction is kept
       LET details_links == <<>> IN
       Paced(IF dataset_info = <<>> THEN <<"delay">>   \* run_scrape: time.sleep(0.5)
             ELSE IF Len(details_links) < Len(reactions') THEN <<"fetch">>
             ELSE <<>>)
    /\ UNCHANGED callVars

\* the save made without the dataset attached
NotAttached(datasets, dataset) == datasets

\* self.scraped_data['datasets'].append(dataset_info), before a save
Attached(datasets, dataset) == Append(datasets, dataset)

\* the dataset popped after the final save as after the other saves
PoppedAfterFinalSave(datasets, dataset) == datasets

\* self.scraped_data['datasets'] after the final save: still attached
KeptAfterFinalSave(datasets, dataset) == Append(datasets, dataset)

\* one round of the reaction loop of scrape_dataset: parse, name, attach,
\* save, detach
ProcessReaction ==
    /\ pc = "reaction"
    /\ \E name \in Names, outcome \in WriteOutcomes :
        LET reaction_detail == extract_reaction_details(reactions[idx + 1], idx, name)
            dataset == [dataset_info[1] EXCEPT
                           !.reaction_details = Append(@, reaction_detail)]
        IN  /\ dataset_info' = <<dataset>>
            /\ save_current_data(Attached(scraped_data, dataset), outcome)
    /\ idx' = idx + 1
    /\ pc' = IF idx + 1 = Len(reactions) THEN "final" ELSE "reaction"
    /\ UNCHANGED <<scraped_data, max_reactions, entries, entry_idx, reactions>>
    /\ UNCHANGED walkVars
    /\ \* no details link at idx: _find_details_url_for_reaction fetches the
       \* listing page, finds none, and _extract_name_from_reaction_page
       \* fetches it again; then time.sleep(0.1)
       Paced(<<"fetch", "fetch", "delay">>)
    /\ UNCHANGED callVars

\* the final save of scrape_dataset, and its return
FinalSave ==
    /\ pc = "final"
    /\ \E outcome \in WriteOutcomes :
        /\ save_current_data(Attached(scraped_data, dataset_info[1]), outcome)
        /\ scraped_data' = KeptAfterFinalSave(scraped_data, dataset_info[1])
    /\ AfterDataset
    /\ DropLocals
    /\ UNCHANGED <<max_reactions, entries>>
    /\ Paced(<<"delay">>)   \* run_scrape: time.sleep(0.5)
    /\ UNCHANGED callVars

Next ==
    \/ RunScrape
    \/ ScrapeArchivePage
    \/ ScrapeDataset
    \/ WalkFetch
    \/ AfterWalk
    \/ ProcessReaction
    \/ FinalSave

Spec == Init /\ [][Next]_vars

(***************************************************************************)
(* The parsers and the merge called on their own, on inputs of any shape   *)
(***************************************************************************)

MaxItems == 2         \* values of one kind in the markup of a page, at most
MaxLen == 4           \* characters of a raw reaction string, at most
MaxSegments == 4      \* path segments of a URL, at most

runVars == <<pc, scraped_data, max_reactions, entries, entry_idx, dataset_info,
             reactions, idx, pace>>

\* the data-reaction-smiles values of the panes of a page ('' for a pane
\* without a Smiles button), the literals of its reactions.push calls, the
\* data-reaction-smiles values outside panes, its script literals
PaneValues == {"", "C&gt;O&gt;CO"}
PushValues == {"", "CC>>O"}
AttrValues == {"N&gt;&gt;O", "CC>>O"}
LiteralValues == {"C>O>N", "CC>>O"}

PageInputs ==
    {[panes    |-> [i \in 1..Len(p) |-> Pane(i - 1, p[i])],
      pushes   |-> u,
      attrs    |-> a,
      literals |-> l,
      links    |-> <<>>] :
        p \in SeqsUpTo(PaneValues, MaxItems), u \in SeqsUpTo(PushValues, MaxItems),
        a \in SeqsUpTo(AttrValues, MaxItems), l \in SeqsUpTo(LiteralValues, MaxItems)}

\* the orders n panes may stand in: place |-> index
PaneOrders(n) ==
    {order \in [1..n -> 0..(n - 1)] : \A i, j \in 1..n : i # j => order[i] # order[j]}

\* the href of the Details link of the pane with index i
DetailsHref(i) == "/d/" \o ToString(i)

\* pages of panes alone: reaction-pane-0 .. reaction-pane-(n-1) in any
\* order in the markup, each with a Smiles button and with or without a
\* Details link
PanePages ==
    UNION {
        {[panes    |-> [i \in 1..n |->
                          [index   |-> order[i],
                           smiles  |-> smiles[i],
                           details |-> IF linked[i] THEN DetailsHref(order[i]) ELSE ""]],
          pushes   |-> <<>>,
          attrs    |-> <<>>,
          literals |-> <<>>,
          links    |-> <<>>] :
            order \in PaneOrders(n), smiles \in [1..n -> {"C>O>CO", "N>>O"}],
            linked \in [1..n -> BOOLEAN]}
        : n \in 0..MaxItems}

ExtractReactionsFromPage ==
    /\ op = ""
    /\ \E page \in PageInputs \cup PanePages :
        /\ op' = "_extract_reactions_from_page"
        /\ args' = page
        /\ result' = _extract_reactions_from_page(page)
    /\ UNCHANGED <<runVars, walkVars, storeVars>>

\* the strings of at most n characters of alphabet
RECURSIVE StringsUpTo(_, _)
StringsUpTo(alphabet, n) ==
    IF n = 0 THEN {""}
    ELSE LET shorter == StringsUpTo(alphabet, n - 1) IN
         shorter \cup {t \o c : t \in shorter, c \in alphabet}

\* raw reaction strings: atoms, the two separators and blanks, in any order
ReactionAlphabet == {"C", "O", ".", ">", " "}

RawStrings == StringsUpTo(ReactionAlphabet, MaxLen)

ParseReactionString ==
    /\ op = ""
    /\ \E reaction_str \in RawStrings :
        /\ op' = "_parse_reaction_string"
        /\ args' = reaction_str
        /\ result' = _parse_reaction_string(reaction_str)
    /\ UNCHANGED <<runVars, walkVars, storeVars>>

\* extract_reaction_details without a details_url: the name stays ''
ExtractReactionDetails ==
    /\ op = ""
    /\ \E reaction_smiles \in RawStrings, reaction_index \in 0..MaxCap :
        /\ op' = "extract_reaction_details"
        /\ args' = [reaction_smiles |-> reaction_smiles,
                    reaction_index |-> reaction_index]
        /\ result' = extract_reaction_details(reaction_smiles, reaction_index, "")
    /\ UNCHANGED <<runVars, walkVars, storeVars>>

\* the segments a path is made of
PathSegments == {"doi", "10.1", "a", "start"}

\* URLs of one host with a path of non-empty segments, with or without a
\* slash at the end
UrlInputs ==
    {"http://h" \o path \o slash :
        path \in StringsUpTo({"/" \o segment : segment \in PathSegments}, MaxSegments),
        slash \in {"", "/"}}

ExtractDatasetIdFromUrl ==
    /\ op = ""
    /\ \E url \in UrlInputs :
        /\ op' = "_extract_dataset_id_from_url"
        /\ args' = url
        /\ result' = _extract_dataset_id_from_url(url)
    /\ UNCHANGED <<runVars, walkVars, storeVars>>

\* a document that holds a reaction_1 of the dataset 10.1/a already
PriorDoc ==
    DictSet(EmptyDict, "DOI 10.1",
        DictSet(EmptyDict, "/a",
            DictSet(EmptyDict, "reaction_1",
                [reactant_smiles |-> "N", solvent_smiles |-> "", product_smiles |-> "O"])))

\* reaction records as extract_reaction_details makes them
RecordPool ==
    {extract_reaction_details(r, i, name) :
        r \in {"CC.O>O>CCO", "C>>CO"}, i \in 0..1, name \in Names}

\* datasets as scrape_dataset attaches them, the identifier full, prefix
\* only, or left to the url
DatasetInputs ==
    {[dataset_id       |-> id,
      url              |-> ListingA,
      reaction_samples |-> <<>>,
      reaction_details |-> details] :
        id \in {"10.1/a", "10.1", ""}, details \in SeqsUpTo(RecordPool, MaxItems)}

\* one round of the loop of save_current_data over the attached datasets
MergeIntoStore ==
    /\ op = ""
    /\ \E final_output \in {EmptyDict, OldDoc, PriorDoc}, dataset \in DatasetInputs :
        /\ op' = "merge"
        /\ args' = [final_output |-> final_output, dataset |-> dataset]
        /\ result' = MergeDataset(final_output, dataset)
    /\ UNCHANGED <<runVars, walkVars, storeVars>>

max_retries == 3
retry_delay == 2

\* what one self.session.get and the status check after it may do: a
\* response that is not an error, a 404 response, another HTTP error status
\* (raise_for_status raises HTTPError), a ConnectionError, Timeout or
\* ChunkedEncodingError, another exception whose text names the
\* connection (RemoteDisconnected), any other exception
AttemptOutcomes == {"ok", "not_found", "http_error", "transient", "disconnected", "other"}

\* every failure but a 404 tried again
RetriedAnyFailure(outcome) == outcome \notin {"ok", "not_found"}

\* the failures the except clauses try again
Retried(outcome) == outcome \in {"transient", "disconnected"}

\* the for loop of _make_request_with_retry from attempt on (0-based),
\* outcomes[k] being what the k-th session.get does and waits the
\* time.sleep calls made so far
RECURSIVE RetryLoop(_, _, _)
RetryLoop(outcomes, attempt, waits) ==
    IF attempt >= max_retries
    THEN [returned |-> "none", attempts |-> attempt, waits |-> waits]
    ELSE LET outcome == outcomes[attempt + 1] IN
         IF outcome = "ok"
         THEN [returned |-> "response", attempts |-> attempt + 1, waits |-> waits]
         ELSE IF outcome = "not_found"
         THEN [returned |-> "none", attempts |-> attempt + 1, waits |-> waits]
         ELSE IF Retried(outcome) /\ attempt < max_retries - 1
         THEN RetryLoop(outcomes, attempt + 1,
                        Append(waits, retry_delay * (attempt + 1)))
         ELSE [returned |-> "raise", attempts |-> attempt + 1, waits |-> waits]

_make_request_with_retry(outcomes) == RetryLoop(outcomes, 0, <<>>)

MakeRequestWithRetry ==
    /\ op = ""
    /\ \E outcomes \in [1..max_retries -> AttemptOutcomes] :
        /\ op' = "_make_request_with_retry"
        /\ args' = outcomes
        /\ result' = _make_request_with_retry(outcomes)
    /\ UNCHANGED <<runVars, walkVars, storeVars>>

\* sorted(keys): the keys in ascending order
RECURSIVE SortedKeys(_)
SortedKeys(keys) ==
    IF keys = {} THEN <<>>
    ELSE LET least == CHOOSE k \in keys : \A j \in keys : k <= j IN
         <<least>> \o SortedKeys(keys \ {least})

\* pane_to_details of _extract_details_links: pane index |-> the joined
\* href of the Details link in that pane, for the panes that have one (a
\* later pane with the same index overwrites an earlier one)
pane_to_details(page, page_url) ==
    LET linked == {i \in 1..Len(page.panes) : page.panes[i].details # ""}
        keys == {page.panes[i].index : i \in linked}
        LastAt(k) == CHOOSE i \in linked :
                         /\ page.panes[i].index = k
                         /\ \A j \in linked : page.panes[j].index = k => j <= i
    IN  [k \in keys |-> urljoin(page_url, page.panes[LastAt(k)].details)]

\* _extract_details_links on a page whose only anchors with an href are the
\* Details links in its panes: the primary method, in pane-index order; with
\* no such link the fallbacks find no anchor either
_extract_details_links(page, page_url) ==
    LET by_pane == pane_to_details(page, page_url)
        order == SortedKeys(DOMAIN by_pane)
    IN  [i \in 1..Len(order) |-> by_pane[order[i]]]

\* _find_details_url_for_reaction for an index on the first page (below
\* 10) that is not below the number of details links: the href of
\* a#title-{reaction_index}, the Details link of the pane with that index,
\* None ("") when the fetch fails or there is no such anchor
_find_details_url_for_reaction(page, page_url, reaction_index, fetched_ok) ==
    LET by_pane == pane_to_details(page, page_url) IN
    IF fetched_ok /\ reaction_index \in DOMAIN by_pane THEN by_pane[reaction_index]
    ELSE ""

\* the details_url scrape_dataset uses for the reaction at idx of a dataset
\* of one listing page: details_links (the re-fetch adds no link the walk
\* did not find) at idx, else _find_details_url_for_reaction
details_url_at(page, page_url, reaction_index, fetched_ok) ==
    LET details_links == _extract_details_links(page, page_url) IN
    IF reaction_index < Len(details_links) THEN details_links[reaction_index + 1]
    ELSE _find_details_url_for_reaction(page, page_url, reaction_index, fetched_ok)

\* the pairing of scrape_dataset for one reaction of a one-page dataset
PairDetailsLink ==
    /\ op = ""
    /\ \E page \in PanePages, fetched_ok \in BOOLEAN :
       \E i \in 0..(Len(_extract_reactions_from_page(page)) - 1) :
        /\ op' = "details_url"
        /\ args' = [page |-> page, idx |-> i, fetched_ok |-> fetched_ok]
        /\ result' = details_url_at(page, ListingA, i, fetched_ok)
    /\ UNCHANGED <<runVars, walkVars, storeVars>>

\* the entries run_scrape processes, out of those the archive page gave
RunScrapeEntries ==
    /\ op = ""
    /\ \E found \in ArchiveResults,
          max_datasets \in {<<>>} \cup {<<n>> : n \in 0..MaxEntries} :
        /\ op' = "run_scrape"
        /\ args' = [found |-> found, max_datasets |-> max_datasets]
        /\ result' = LimitEntries(found, max_datasets)
    /\ UNCHANGED <<runVars, walkVars, storeVars>>

CallNext ==
    \/ ExtractReactionsFromPage
    \/ ParseReactionString
    \/ ExtractReactionDetails
    \/ ExtractDatasetIdFromUrl
    \/ MergeIntoStore
    \/ MakeRequestWithRetry
    \/ PairDetailsLink
    \/ RunScrapeEntries

CallSpec == Init /\ [][CallNext]_vars

(***************************************************************************)
(* Properties                                                              *)
(***************************************************************************)

\* the datasets the run has handed to save_current_data so far: the
\* finished ones and the one scrape_dataset is working on
AllDatasets == scraped_data \o dataset_info

\* a dataset identifier that names a DOI
IsDoi(doi) == doi # "" /\ ~startswith(doi, "dataset_")

\* the backing file holds the document the last save wrote, whole
WrittenWhole == last_write = "ok" /\ file.state = "complete"

\* document doc holds reaction record r of the dataset filed as doi,
\* with the payload of r
HoldsRecord(doc, doi, r) ==
    /\ DoiKey(doi) \in DOMAIN doc
    /\ DoiSuffix(doi) \in DOMAIN doc[DoiKey(doi)]
    /\ r.reaction_id \in DOMAIN doc[DoiKey(doi)][DoiSuffix(doi)]
    /\ LET held == doc[DoiKey(doi)][DoiSuffix(doi)][r.reaction_id] IN
       /\ held.reactant_smiles = r.reactant_smiles
       /\ held.solvent_smiles = r.solvent_smiles
       /\ held.product_smiles = r.product_smiles
       /\ IF r.name = "" THEN "name" \notin DOMAIN held
          ELSE "name" \in DOMAIN held /\ held["name"] = r.name

\* C1: within a run, every key path (doi key, suffix, reaction id) of the
\* document of one successful save is a key path of the document of the
\* next successful save, hence of every later one.
C1_KeyPathsKept ==
    [][(pc \in {"reaction", "final"} /\ last_good # <<>> /\ last_write' = "ok")
         => /\ file'.state = "complete"
            /\ KeyPaths(last_good[1]) \subseteq KeyPaths(file'.doc)]_vars

\* a second dataset's second reaction saved, the first dataset's two still there
C1_Witness ==
    /\ pc \in {"reaction", "final"}
    /\ idx = 2
    /\ WrittenWhole
    /\ Len(scraped_data) = 1
    /\ Cardinality(KeyPaths(file.doc)) = 4

\* C2: after a successful save, every dataset with a DOI that no later
\* dataset shares has all its reaction records in the document with the
\* payload it wrote, and datasets with different DOIs have different slots.
C2_BothDatasetsHeld ==
    WrittenWhole =>
        \A i \in 1..Len(AllDatasets) :
            LET a == AllDatasets[i] IN
            IsDoi(DatasetDoi(a)) =>
                /\ \A j \in (i + 1)..Len(AllDatasets) :
                      LET b == AllDatasets[j] IN
                      (IsDoi(DatasetDoi(b)) /\ DatasetDoi(b) # DatasetDoi(a))
                          => <<DoiKey(DatasetDoi(a)), DoiSuffix(DatasetDoi(a))>>
                              # <<DoiKey(DatasetDoi(b)), DoiSuffix(DatasetDoi(b))>>
                /\ (\A j \in (i + 1)..Len(AllDatasets) :
                        DatasetDoi(AllDatasets[j]) # DatasetDoi(a))
                     => \A n \in 1..Len(a.reaction_details) :
                            HoldsRecord(file.doc, DatasetDoi(a), a.reaction_details[n])

\* two finished datasets with different DOIs, each with a reaction_1, the
\* two payloads different
C2_Witness ==
    /\ pc = "done"
    /\ WrittenWhole
    /\ Len(scraped_data) = 2
    /\ IsDoi(DatasetDoi(scraped_data[1]))
    /\ IsDoi(DatasetDoi(scraped_data[2]))
    /\ DatasetDoi(scraped_data[1]) # DatasetDoi(scraped_data[2])
    /\ Len(scraped_data[1].reaction_details) = 2
    /\ Len(scraped_data[2].reaction_details) >= 1
    /\ scraped_data[1].reaction_details[1] # scraped_data[2].reaction_details[1]

\* dataset d has a DOI "<prefix>" or "<prefix>/<rest>", and k is
\* "DOI <prefix>" and s is "" or "/<rest>"
FiledAt(d, k, s) ==
    LET doi == DatasetDoi(d)
        prefixEnd == SpanEnd(doi, 1, {"/"}) \* the index after the prefix
    IN  /\ IsDoi(doi)
        /\ k = "DOI " \o SubSeq(doi, 1, prefixEnd - 1)
        /\ s = SubSeq(doi, prefixEnd, Len(doi))

\* C3: every slot of the document a save of the run wrote belongs to a
\* dataset whose identifier names a DOI, and every reaction id in the slot
\* is one of such a dataset's: an unresolved dataset adds no key and no entry.
C3_UnresolvedAddsNothing ==
    WrittenWhole =>
        \A k \in DOMAIN file.doc : \A s \in DOMAIN file.doc[k] :
            /\ \E i \in 1..Len(AllDatasets) : FiledAt(AllDatasets[i], k, s)
            /\ \A r \in DOMAIN file.doc[k][s] :
                  \E i \in 1..Len(AllDatasets) :
                      /\ FiledAt(AllDatasets[i], k, s)
                      /\ \E n \in 1..Len(AllDatasets[i].reaction_details) :
                            AllDatasets[i].reaction_details[n].reaction_id = r

\* an unresolved dataset with two reactions has had its final save, which
\* succeeded, and the document is empty
C3_Witness ==
    /\ pc = "done"
    /\ WrittenWhole
    /\ Len(scraped_data) = 1
    /\ ~IsDoi(scraped_data[1].dataset_id)
    /\ ~IsDoi(_extract_dataset_id_from_url(scraped_data[1].url))
    /\ Len(scraped_data[1].reaction_details) = 2
    /\ file.doc = EmptyDict

\* C4: in the reaction loop of a dataset with a DOI, when the save made for
\* the k-th reaction succeeded, the backing file holds reaction_1 ..
\* reaction_k of the dataset, each with the payload of its record.
C4_SavedAfterEachReaction ==
    (pc \in {"reaction", "final"} /\ idx >= 1 /\ last_write = "ok"
        /\ IsDoi(DatasetDoi(dataset_info[1])))
      => /\ file.state = "complete"
         /\ Len(dataset_info[1].reaction_details) = idx
         /\ \A k \in 1..idx :
               /\ dataset_info[1].reaction_details[k].reaction_id
                    = "reaction_" \o ToString(k)
               /\ HoldsRecord(file.doc, DatasetDoi(dataset_info[1]),
                              dataset_info[1].reaction_details[k])

\* the first of two kept reactions is saved and the second is still to come
C4_Witness ==
    /\ pc = "reaction"
    /\ idx = 1
    /\ Len(reactions) = 2
    /\ WrittenWhole
    /\ IsDoi(DatasetDoi(dataset_info[1]))
    /\ Cardinality(KeyPaths(file.doc)) = 1

\* C5: after a failed write of save_current_data the backing file is the
\* document of the last successful write, whole.
C5_FailedWriteKeepsFile ==
    (last_write = "failed" /\ pc # "raised" /\ last_good # <<>>)
        => file = [state |-> "complete", doc |-> last_good[1]]

\* C6: the snapshot existing_data is the document of the last successful
\* write: a successful save sets it to what was written, a failed save
\* leaves it as it was.
C6_SnapshotIsLastWrite ==
    last_good # <<>> => existing_data = last_good[1]

\* a save that was adding an entry failed after one that had succeeded
C6_Witness ==
    /\ last_write = "failed"
    /\ lost # {}
    /\ last_good # <<>>
    /\ last_good[1] # EmptyDict

\* C7: the document of a successful write holds every key path that the
\* failed writes before it were adding.
C7_LostWriteRecovered ==
    last_write = "ok" => (file.state = "complete" /\ lost \subseteq KeyPaths(file.doc))

\* a write for a later dataset succeeded after the writes of an earlier
\* dataset's reaction had failed
C7_Witness ==
    /\ WrittenWhole
    /\ lost # {}
    /\ pc = "reaction"
    /\ idx = 1
    /\ Len(scraped_data) = 1
    /\ \E p \in lost : p[3] = "reaction_2"

\* C8: when the fetch of a page after the first raises, the walk returns
\* the reactions accumulated from the earlier pages to scrape_dataset.
C8_PartialResultsKept ==
    (pc = "walked" /\ walk_end = "transport" /\ Len(fetched) >= 2)
        => (dataset_info # <<>> /\ reactions = all_reactions)

\* the sum of the reaction counts of the first n fetches
RECURSIVE CountSum(_, _)
CountSum(history, n) ==
    IF n = 0 THEN 0 ELSE history[n].count + CountSum(history, n - 1)

\* C9: a fetched page with zero reactions is the last fetch of its walk, no
\* next link is sought on it, and the walk returns the reactions of the
\* pages before it.
C9_EmptyPageEndsWalk ==
    \A i \in 1..Len(fetched) :
        (fetched[i].got = "page" /\ fetched[i].count = 0)
            => /\ i = Len(fetched)
               /\ ~fetched[i].searched
               /\ pc = "walked"
               /\ dataset_info # <<>>
               /\ reactions = all_reactions
               /\ Len(reactions) = CountSum(fetched, i - 1)

\* a second page without reactions but with a next link ended the walk
C9_Witness ==
    /\ pc = "walked"
    /\ walk_end = "empty_page"
    /\ Len(fetched) = 2
    /\ fetched[2].count = 0
    /\ fetched[2].links > 0
    /\ Len(reactions) > 0

\* C10: no URL is fetched twice in one walk.
C10_NoUrlFetchedTwice ==
    \A i, j \in 1..Len(fetched) : i # j => fetched[i].url # fetched[j].url

\* the reactions each strategy yields when it runs alone
StructuralStrategy(page) == AppendDecodedNew(<<>>, PaneSmiles(page.panes))
PushStrategy(page) == AppendNonEmpty(<<>>, page.pushes)
AttributeStrategy(page) == AppendDecodedNew(<<>>, page.attrs)
LiteralStrategy(page) == AppendLiteralNew(<<>>, page.literals)

\* C11: _extract_reactions_from_page returns what the first strategy that
\* yields a reaction yields alone, in the order structural, push call,
\* attribute, script literal: nothing of a later strategy is merged in.
C11_FirstStrategyWins ==
    op = "_extract_reactions_from_page" =>
        result = IF Len(StructuralStrategy(args)) > 0 THEN StructuralStrategy(args)
                 ELSE IF Len(PushStrategy(args)) > 0 THEN PushStrategy(args)
                 ELSE IF Len(AttributeStrategy(args)) > 0 THEN AttributeStrategy(args)
                 ELSE LiteralStrategy(args)

\* the positions of character c in s
SepPositions(s, c) == {i \in 1..Len(s) : Ch(s, i) = c}

\* the three token lists written back as a raw reaction string
Render(parsed) ==
    join(".", parsed.reactant_smiles) \o ">" \o join(".", parsed.solvents)
        \o ">" \o join(".", parsed.product_smiles)

\* C12: for a raw reaction string with at most two '>', parsing it,
\* rendering the three token lists as dot-joined segments separated by '>',
\* and parsing again gives the same three token lists.
C12_ParseRenderParse ==
    (op = "_parse_reaction_string" /\ Cardinality(SepPositions(args, ">")) <= 2)
        => _parse_reaction_string(Render(result)) = result

\* a string with one '>', a blank-padded token and an empty token, which
\* its rendering does not give back
C12_Witness ==
    /\ op = "_parse_reaction_string"
    /\ Cardinality(SepPositions(args, ">")) = 1
    /\ args = " C.>"
    /\ result.reactant_smiles = <<"C">>
    /\ Render(result) # args

Least(S) == CHOOSE i \in S : \A j \in S : i <= j
Greatest(S) == CHOOSE i \in S : \A j \in S : i >= j

\* the k-th piece of s between characters c, '' when s has fewer pieces
Piece(s, c, k) ==
    LET inside == {i \in 1..Len(s) :
                      /\ Ch(s, i) # c
                      /\ Cardinality({j \in SepPositions(s, c) : j < i}) = k - 1}
    IN  IF inside = {} THEN "" ELSE SubSeq(s, Least(inside), Greatest(inside))

\* t without the whitespace at its two ends
Trimmed(t) ==
    LET solid == {i \in 1..Len(t) : Ch(t, i) \notin Whitespace} IN
    IF solid = {} THEN "" ELSE SubSeq(t, Least(solid), Greatest(solid))

\* the non-empty ones of the first n tokens, in their order, dots between
RECURSIVE DotJoined(_, _)
DotJoined(tokens, n) ==
    IF n = 0 THEN ""
    ELSE LET before == DotJoined(tokens, n - 1) IN
         IF tokens[n] = "" THEN before
         ELSE IF before = "" THEN tokens[n]
         ELSE before \o "." \o tokens[n]

\* the trimmed non-empty tokens of the k-th '>'-segment of r, dot-joined
\* in the order they have in the segment
ExpectedComponent(r, k) ==
    LET segment == Piece(r, ">", k)
        n == Cardinality(SepPositions(segment, ".")) + 1
    IN  DotJoined([j \in 1..n |-> Trimmed(Piece(segment, ".", j))], n)

\* C13: extract_reaction_details returns reaction_id "reaction_<i+1>" and
\* as reactant_smiles, solvent_smiles and product_smiles the dot-join of the
\* trimmed non-empty tokens of the first, second and third '>'-segment, in
\* the order of the source, '' for a segment that is missing.
C13_ComponentsInSourceOrder ==
    op = "extract_reaction_details" =>
        /\ result.reaction_id = "reaction_" \o ToString(args.reaction_index + 1)
        /\ result.reactant_smiles = ExpectedComponent(args.reaction_smiles, 1)
        /\ result.solvent_smiles = ExpectedComponent(args.reaction_smiles, 2)
        /\ result.product_smiles = ExpectedComponent(args.reaction_smiles, 3)

\* a string without '>' whose tokens are not in sorted order, one of them
\* blank-padded: both come back in place, the missing segments are ''
C13_Witness ==
    /\ op = "extract_reaction_details"
    /\ args = [reaction_smiles |-> "O. C", reaction_index |-> 1]
    /\ result.reaction_id = "reaction_2"
    /\ result.reactant_smiles = "O.C"
    /\ result.solvent_smiles = ""
    /\ result.product_smiles = ""

\* the pieces of url between slashes: "http:", "", the host, the segments
\* of the path, and "" after a slash at the end
UrlPieces(url) ==
    [k \in 1..(Cardinality(SepPositions(url, "/")) + 1) |-> Piece(url, "/", k)]

\* the places of a piece "doi" that two non-empty pieces follow
DoiPairs(pieces) ==
    {i \in 1..(Len(pieces) - 2) :
        pieces[i] = "doi" /\ pieces[i + 1] # "" /\ pieces[i + 2] # ""}

\* C14: for a URL containing /doi/A/B, with or without more of a path
\* behind (A and B the two segments after the first such /doi/),
\* _extract_dataset_id_from_url returns "A/B"; for a URL ending in /doi/A it
\* returns "A"; for a URL in which no segment follows a "doi" it returns a
\* string that starts with "dataset_".
C14_DatasetIdFromUrl ==
    op = "_extract_dataset_id_from_url" =>
        LET pieces == UrlPieces(args)
            n == Len(pieces)
        IN  /\ DoiPairs(pieces) # {} =>
                  LET i == Least(DoiPairs(pieces)) IN
                  result = pieces[i + 1] \o "/" \o pieces[i + 2]
            /\ (DoiPairs(pieces) = {} /\ pieces[n - 1] = "doi" /\ pieces[n] # "")
                  => result = pieces[n]
            /\ (\A i \in 1..n : pieces[i] = "doi" => (i = n \/ pieces[i + 1] = ""))
                  => startswith(result, "dataset_")

\* a DOI with a further path behind it
C14_Witness ==
    /\ op = "_extract_dataset_id_from_url"
    /\ args = "http://h/doi/10.1/a/start"
    /\ result = "10.1/a"

\* C15: a dataset whose listing URL carries /doi/<prefix>/<suffix> is
\* handed to persistence with the identifier "<prefix>/<suffix>".
C15_FullDoiHandedOn ==
    \A n \in 1..Len(AllDatasets) :
        LET pieces == UrlPieces(AllDatasets[n].url) IN
        DoiPairs(pieces) # {} =>
            LET i == Least(DoiPairs(pieces)) IN
            AllDatasets[n].dataset_id = pieces[i + 1] \o "/" \o pieces[i + 2]

\* C16: every reaction payload of the written document carries
\* reaction_smiles, the raw reaction string of one of the run's reactions,
\* and a components object with the three component fields.
C16_PayloadShape ==
    WrittenWhole =>
        \A path \in KeyPaths(file.doc) :
            LET payload == file.doc[path[1]][path[2]][path[3]] IN
            /\ "reaction_smiles" \in DOMAIN payload
            /\ "components" \in DOMAIN payload
            /\ DOMAIN payload["components"]
                  = {"reactant_smiles", "solvent_smiles", "product_smiles"}
            /\ \E n \in 1..Len(AllDatasets) :
                  InList(payload["reaction_smiles"], AllDatasets[n].reaction_samples)

\* the document holds nothing, whole
CleanFile == file = [state |-> "complete", doc |-> EmptyDict]

\* C17: when run_scrape has made its clearing write, the backing file and
\* the snapshot are the empty document whatever they held before, and no
\* dataset is attached; from then on every entry of a whole document is a
\* reaction of a dataset of this run; and a run whose archive yields no
\* entries ends there, the document empty and no listing page fetched.
C17_RunStartsClean ==
    /\ [](/\ pc = "archive" =>
               (CleanFile /\ existing_data = EmptyDict /\ scraped_data = <<>>)
          /\ (pc \notin {"idle", "raised"} /\ file.state = "complete") =>
               \A path \in KeyPaths(file.doc) :
                   \E n \in 1..Len(AllDatasets) :
                       /\ FiledAt(AllDatasets[n], path[1], path[2])
                       /\ \E j \in 1..Len(AllDatasets[n].reaction_details) :
                             AllDatasets[n].reaction_details[j].reaction_id = path[3])
    /\ [][(pc = "archive" /\ entries' = <<>>)
            => (pc' = "done" /\ CleanFile' /\ fetched' = <<>> /\ scraped_data' = <<>>)]_vars

\* a run has ended on an archive without entries
C17_Witness ==
    /\ pc = "done"
    /\ entries = <<>>
    /\ CleanFile
    /\ existing_data = EmptyDict

\* C18: run_scrape never ends by raising.
C18_RunReturnsNormally == pc # "raised"

\* the last of the records of reaction_details with reaction_id id
LastWith(reaction_details, id) ==
    reaction_details[Greatest({n \in 1..Len(reaction_details) :
                                  reaction_details[n].reaction_id = id})]

\* the key paths the reaction records of dataset d go to
PathsOf(d) ==
    {<<DoiKey(DatasetDoi(d)), DoiSuffix(DatasetDoi(d)), d.reaction_details[n].reaction_id>> :
        n \in 1..Len(d.reaction_details)}

\* C19: merging a dataset into the document a second time changes nothing;
\* each reaction_id of the dataset has one entry, that of the last record
\* with the id, and the document has no more entries than the ids the
\* document and the dataset have together.
C19_MergeTwiceIsOnce ==
    op = "merge" =>
        LET d == args.dataset
            slot == result[DoiKey(DatasetDoi(d))][DoiSuffix(DatasetDoi(d))]
        IN  /\ MergeDataset(result, d) = result
            /\ \A n \in 1..Len(d.reaction_details) :
                  slot[d.reaction_details[n].reaction_id]
                      = ReactionData(LastWith(d.reaction_details,
                                              d.reaction_details[n].reaction_id))
            /\ KeyPaths(result) = KeyPaths(args.final_output) \cup PathsOf(d)

\* two records with one reaction_id and different payloads merged into a
\* document that holds the id already: one entry, that of the second
C19_Witness ==
    /\ op = "merge"
    /\ args.final_output = PriorDoc
    /\ args.dataset.dataset_id = "10.1/a"
    /\ Len(args.dataset.reaction_details) = 2
    /\ args.dataset.reaction_details[1].reaction_id = "reaction_1"
    /\ args.dataset.reaction_details[2].reaction_id = "reaction_1"
    /\ ReactionData(args.dataset.reaction_details[1])
         # ReactionData(args.dataset.reaction_details[2])
    /\ Cardinality(KeyPaths(result)) = 1
    /\ result["DOI 10.1"]["/a"]["reaction_1"]
         = ReactionData(args.dataset.reaction_details[2])

\* the "<prefix>/<suffix>" a listing URL carries after /doi/, '' if none
UrlDoi(url) ==
    LET pieces == UrlPieces(url) IN
    IF DoiPairs(pieces) = {} THEN ""
    ELSE pieces[Least(DoiPairs(pieces)) + 1] \o "/" \o pieces[Least(DoiPairs(pieces)) + 2]

\* C20: two datasets of a run whose listing URLs carry different
\* /doi/<prefix>/<suffix> pairs are filed under different slots, and after
\* a successful save the document holds the reaction records of both.
C20_DistinctSlots ==
    \A m, n \in 1..Len(AllDatasets) :
        LET a == AllDatasets[m]
            b == AllDatasets[n]
        IN  (UrlDoi(a.url) # "" /\ UrlDoi(b.url) # "" /\ UrlDoi(a.url) # UrlDoi(b.url))
              => /\ <<DoiKey(DatasetDoi(a)), DoiSuffix(DatasetDoi(a))>>
                      # <<DoiKey(DatasetDoi(b)), DoiSuffix(DatasetDoi(b))>>
                 /\ WrittenWhole =>
                        \A j \in 1..Len(a.reaction_details) :
                            HoldsRecord(file.doc, DatasetDoi(a), a.reaction_details[j])

\* C21: the list _extract_reactions_from_page returns holds no raw
\* reaction string twice.
C21_NoStringTwice ==
    op = "_extract_reactions_from_page" =>
        \A i, j \in 1..Len(result) : i # j => result[i] # result[j]

\* the panes of a page in ascending order of their index
Ascending(panes) ==
    [k \in 1..Len(panes) |->
        panes[CHOOSE i \in 1..Len(panes) : panes[i].index = k - 1]]

\* C22: when the structural strategy yields reactions, they are returned
\* in ascending order of the index of their reaction-pane, whatever the
\* order of the panes in the markup.
C22_PaneIndexOrder ==
    (op = "_extract_reactions_from_page" /\ Len(StructuralStrategy(args)) > 0)
        => result = StructuralStrategy([args EXCEPT !.panes = Ascending(args.panes)])

\* the reactions of the pages of the first n fetches, page after page, each
\* page's in their order on the page
RECURSIVE PageThenPosition(_, _)
PageThenPosition(history, n) ==
    IF n = 0 THEN <<>>
    ELSE PageThenPosition(history, n - 1)
         \o [i \in 1..history[n].count |-> DecodeEntities(RawReactions[i])]

\* C23: the walk ends on what the pages hold, never on the cap, and
\* returns the reactions of all its pages in page-then-position order;
\* scrape_dataset then keeps the first min(N, total) of them, and parses
\* them one after the other as reaction_1, reaction_2, ...: never more than
\* N, and all of the kept ones when the loop is over.
C23_CapAfterPagination ==
    /\ []((pc = "walked" /\ dataset_info # <<>>) =>
             /\ walk_end \in {"not_found", "empty_page", "no_next"}
             /\ all_reactions = PageThenPosition(fetched, Len(fetched))
             /\ reactions = all_reactions)
    /\ [][(pc = "walked" /\ dataset_info # <<>>) =>
             /\ reactions' = [i \in 1..Min(max_reactions, Len(all_reactions)) |->
                                 all_reactions[i]]
             /\ dataset_info'[1].reaction_samples = reactions']_vars
    /\ [](pc \in {"reaction", "final"} =>
             /\ Len(reactions) <= max_reactions
             /\ pc = "final" => idx = Len(reactions)
             /\ Len(dataset_info[1].reaction_details) = idx
             /\ \A k \in 1..idx :
                   \E name \in Names :
                       dataset_info[1].reaction_details[k]
                           = extract_reaction_details(reactions[k], k - 1, name))

\* with a cap of one, a walk over three pages of two reactions each: the
\* second and third page were fetched with the cap long reached
C23_Witness ==
    /\ pc = "walked"
    /\ max_reactions = 1
    /\ Len(fetched) = 3
    /\ \A i \in 1..3 : fetched[i].count = 2
    /\ Len(reactions) = 6

\* C24: a call makes one to three attempts; every attempt before the last
\* ended in a transient failure, and the k-th of them was followed by a
\* wait of retry_delay * k; the last attempt is the first that did not end
\* in a transient failure, or the third; a response is returned, a 404
\* gives None, another HTTP error is raised, and so is the third transient
\* failure.
C24_AtMostThreeAttempts ==
    op = "_make_request_with_retry" =>
        LET n == result.attempts
            last == args[n]
        IN  /\ n \in 1..3
            /\ \A k \in 1..(n - 1) : args[k] \in {"transient", "disconnected"}
            /\ result.waits = [k \in 1..(n - 1) |-> 2 * k]
            /\ last \in {"transient", "disconnected"} => n = 3
            /\ result.returned =
                  CASE last = "ok" -> "response"
                    [] last = "not_found" -> "none"
                    [] OTHER -> "raise"

\* three transient failures: two waits, of 2 and 4, and the third raised
C24_Witness ==
    /\ op = "_make_request_with_retry"
    /\ args = <<"transient", "transient", "transient">>
    /\ result = [returned |-> "raise", attempts |-> 3, waits |-> <<2, 4>>]

\* C25: no fetch call of a run begins without a politeness delay since the
\* end of the fetch call before it.
C25_NoBackToBackFetches == ~pace.hasty

\* C26: the details link used for the reaction at index idx of the kept
\* list is the Details link of the pane its raw string was taken from (none
\* when that pane has no Details link).
C26_LinkFromSamePane ==
    op = "details_url" =>
        LET panes == args.page.panes
            raw == _extract_reactions_from_page(args.page)[args.idx + 1]
            from == Least({i \in 1..Len(panes) : DecodeEntities(panes[i].smiles) = raw})
        IN  result = IF panes[from].details = "" THEN ""
                     ELSE urljoin(ListingA, panes[from].details)

\* C27: with a maximum dataset count N given, the entries processed are the
\* first N entries of the archive (all of them when there are fewer); with
\* none given, all entries.
C27_FirstNDatasets ==
    op = "run_scrape" =>
        result = IF args.max_datasets = <<>> THEN args.found
                 ELSE SubSeq(args.found, 1, Min(args.max_datasets[1], Len(args.found)))

====
